---- MODULE Spec2Model ----
(***************************************************************************)
(* Model of pyscript/scrape.py: scrape_jobs(), a sequential scraper that   *)
(* loads one listing page, reads every job card, opens the job's detail    *)
(* page to mine an experience phrase, and writes the records as JSON.      *)
(* Strings are TLA+ strings; a character is a string of length one.        *)
(***************************************************************************)
EXTENDS Integers, Sequences, FiniteSets, TLC

\* ------------------------------------------------------------------------
\* Bounds of the model
\* ------------------------------------------------------------------------
MaxCards == 2

\* ------------------------------------------------------------------------
\* Characters and strings (str.strip, re with IGNORECASE)
\* ------------------------------------------------------------------------
LowerAlpha == "abcdefghijklmnopqrstuvwxyz"
UpperAlpha == "ABCDEFGHIJKLMNOPQRSTUVWXYZ"
Digits == "0123456789"

CharAt(s, i) == IF i >= 1 /\ i <= Len(s) THEN SubSeq(s, i, i) ELSE ""

CharsOf(s) == { SubSeq(s, i, i) : i \in 1..Len(s) }

IsSpace(c) == c \in {" ", "\n", "\t", "\r"}

IsDigit(c) == c \in CharsOf(Digits)

IsWordChar(c) == c \in CharsOf(LowerAlpha) \cup CharsOf(UpperAlpha) \cup CharsOf(Digits) \cup {"_"}

ToLower(c) ==
    IF c \in CharsOf(UpperAlpha)
    THEN LET i == CHOOSE k \in 1..Len(UpperAlpha) : SubSeq(UpperAlpha, k, k) = c
         IN  SubSeq(LowerAlpha, i, i)
    ELSE c

RECURSIVE LStrip(_)
LStrip(s) == IF Len(s) > 0 /\ IsSpace(CharAt(s, 1)) THEN LStrip(SubSeq(s, 2, Len(s))) ELSE s

RECURSIVE RStrip(_)
RStrip(s) == IF Len(s) > 0 /\ IsSpace(CharAt(s, Len(s))) THEN RStrip(SubSeq(s, 1, Len(s) - 1)) ELSE s

\* a plausible slip: only the leading whitespace is removed
Strip_LeadingOnly(s) == LStrip(s)

\* str.strip(): remove leading and trailing whitespace
Strip(s) == RStrip(LStrip(s))

\* ------------------------------------------------------------------------
\* experience_regex, as a backtracking matcher
\*   \b(?:at least\s*\d+\+?\s*years?|minimum\s*\d+\+?\s*years?|
\*        \d+\+?\s*years?|one year|two years?|...|ten years?)\b
\* Positions are 1-based; an "end" is the index just after the match.
\* ------------------------------------------------------------------------
\* the literal lit (lower case) matches s at pos, ignoring case
LitAt(s, pos, lit) ==
    /\ pos >= 1
    /\ pos + Len(lit) - 1 <= Len(s)
    /\ \A k \in 1..Len(lit) : ToLower(CharAt(s, pos + k - 1)) = CharAt(lit, k)

RECURSIVE SkipSpaces(_, _)
SkipSpaces(s, pos) == IF IsSpace(CharAt(s, pos)) THEN SkipSpaces(s, pos + 1) ELSE pos

RECURSIVE SkipDigits(_, _)
SkipDigits(s, pos) == IF IsDigit(CharAt(s, pos)) THEN SkipDigits(s, pos + 1) ELSE pos

\* \b at pos: exactly one of the characters before and at pos is a word character
WordBoundary(s, pos) == IsWordChar(CharAt(s, pos - 1)) # IsWordChar(CharAt(s, pos))

\* "lit" followed by s? : the candidate ends, greedy one first
OptionalS(s, pos, lit) ==
    IF LitAt(s, pos, lit)
    THEN LET p == pos + Len(lit)
         IN  IF ToLower(CharAt(s, p)) = "s" THEN <<p + 1, p>> ELSE <<p>>
    ELSE <<>>

\* \d+\+?\s*years? : the greedy runs of digits and spaces are forced, since
\* what follows them can begin with neither a digit nor a space
NumYears(s, pos) ==
    LET d == SkipDigits(s, pos)
        q == IF CharAt(s, d) = "+" THEN d + 1 ELSE d
    IN  IF d = pos THEN <<>> ELSE OptionalS(s, SkipSpaces(s, q), "year")

WrittenNumbers == <<"two", "three", "four", "five", "six", "seven", "eight", "nine", "ten">>

RECURSIVE WrittenYears(_, _, _)
WrittenYears(s, pos, k) ==
    IF k > Len(WrittenNumbers) THEN <<>>
    ELSE OptionalS(s, pos, WrittenNumbers[k] \o " year") \o WrittenYears(s, pos, k + 1)

\* candidate ends of the group at pos, in the order the engine tries them
Alternatives(s, pos) ==
    (IF LitAt(s, pos, "at least") THEN NumYears(s, SkipSpaces(s, pos + 8)) ELSE <<>>)
    \o (IF LitAt(s, pos, "minimum") THEN NumYears(s, SkipSpaces(s, pos + 7)) ELSE <<>>)
    \o NumYears(s, pos)
    \o (IF LitAt(s, pos, "one year") THEN <<pos + 8>> ELSE <<>>)
    \o WrittenYears(s, pos, 1)

\* end of the match starting at pos, or 0 when the pattern does not match there
MatchEnd(s, pos) ==
    LET ok == SelectSeq(Alternatives(s, pos), LAMBDA e : WordBoundary(s, e))
    IN  IF WordBoundary(s, pos) /\ Len(ok) > 0 THEN Head(ok) ELSE 0

\* experience_regex.findall(text): the non-overlapping matches, left to right
RECURSIVE FindAllFrom(_, _)
FindAllFrom(s, pos) ==
    IF pos > Len(s) THEN <<>>
    ELSE LET e == MatchEnd(s, pos)
         IN  IF e > 0 THEN <<SubSeq(s, pos, e - 1)>> \o FindAllFrom(s, e)
             ELSE FindAllFrom(s, pos + 1)

FindAll(s) == FindAllFrom(s, 1)

\* ', '.join(seq)
RECURSIVE Join(_)
Join(seq) ==
    IF Len(seq) = 0 THEN ""
    ELSE IF Len(seq) = 1 THEN seq[1]
    ELSE seq[1] \o ", " \o Join(Tail(seq))

Range(seq) == { seq[i] : i \in 1..Len(seq) }

\* the orders in which a set can be iterated
Orderings(S) ==
    { f \in [1..Cardinality(S) -> S] : \A i, j \in 1..Cardinality(S) : f[i] = f[j] => i = j }

\* ------------------------------------------------------------------------
\* Program constants and the sampled page contents
\* ------------------------------------------------------------------------
PageStart == 1
PageStop == 2
Origin == "https://careers.servicenow.com"
NotMentioned == "not mentioned"
NoneSentinel == "NONE"

\* query_selector() returned None: the element is not in the card
NoElement == "<no element>"

BodyTexts ==
    { "Requires 5+ years of experience, ideally three years in the field",
      "at least 5 years, At Least 5 years, or at least 5 years",
      "No prior experience needed; one years" }

\* a job card of the listing page, as the selectors of the script see it:
\* the text of its title and of its first inline list item and the href of
\* its first anchor, each of them possibly absent
Card ==
    { [title |-> t, loc |-> l, href |-> h] :
        <<t, l, h>> \in { <<" Staff Engineer\n", "Pune, India \t", "/jobs/744">>,
                          <<"QA Lead", NoElement, NoElement>>,
                          <<NoElement, "\tRemote", "/jobs/9">>,
                          <<NoElement, NoElement, NoElement>> } }

CardLists == UNION { [1..n -> Card] : n \in 0..MaxCards }

VARIABLES
    pc,          \* the statement scrape_jobs() is about to execute
    browser,     \* "none", "open" or "closed"
    open_pages,  \* the detail pages open in the context, named <<page_num, card>>
    page_num,    \* loop variable of the page loop
    job_cards,   \* result of query_selector_all
    idx,         \* position of `card` in job_cards
    job_name, job_loc, job_desc, experience, jobLink,
    page_text, matches,
    err,         \* the operation whose error an except clause caught last, or ""
    visited,     \* context.new_page() was called for the current card
    jobs,        \* the accumulated records
    log,         \* what was printed
    written,     \* the output file exists
    output,      \* its content
    uncaught,    \* the operation whose error propagated out of scrape_jobs, or ""
    recorded,    \* for each record of jobs, the card it was made from and how its detail step ended
    enumerated   \* every card returned by query_selector_all so far, in order

locals == <<job_name, job_loc, job_desc, experience, jobLink, page_text, matches, err, visited>>
result == <<jobs, log, written, output, uncaught, recorded, enumerated>>
vars == <<pc, browser, open_pages, page_num, job_cards, idx, locals, result>>

Init ==
    /\ pc = "launch"
    /\ browser = "none"
    /\ open_pages = {}
    /\ page_num = PageStart
    /\ job_cards = <<>>
    /\ idx = 0
    /\ job_name = "" /\ job_loc = "" /\ job_desc = "" /\ experience = "" /\ jobLink = ""
    /\ page_text = "" /\ matches = <<>> /\ err = "" /\ visited = FALSE
    /\ jobs = <<>>
    /\ log = <<>>
    /\ written = FALSE
    /\ output = <<>>
    /\ uncaught = ""
    /\ recorded = <<>>
    /\ enumerated = <<>>

card == job_cards[idx]

\* an error raised outside every try block: it propagates to the caller
Propagate(op) ==
    /\ pc' = "crashed"
    /\ uncaught' = op

\* an error raised inside the per-page try block (lines 21-61)
PageError(op) ==
    /\ pc' = "page_except"
    /\ err' = op

\* an error raised inside the per-card try block (lines 41-49)
CardError(op) ==
    /\ pc' = "card_except"
    /\ err' = op

\* line 8: p.chromium.launch(...)
Launch ==
    /\ pc = "launch"
    /\ \/ /\ browser' = "open"
          /\ pc' = "new_context"
          /\ UNCHANGED uncaught
       \/ /\ Propagate("launch")
          /\ UNCHANGED browser
    /\ UNCHANGED <<open_pages, page_num, job_cards, idx, locals, jobs, log, written, output, recorded, enumerated>>

\* line 9: browser.new_context(...)
NewContext ==
    /\ pc = "new_context"
    /\ \/ /\ pc' = "new_page"
          /\ UNCHANGED uncaught
       \/ Propagate("new_context")
    /\ UNCHANGED <<browser, open_pages, page_num, job_cards, idx, locals, jobs, log, written, output, recorded, enumerated>>

\* lines 10-12: page = context.new_page(); jobs = []
NewPage ==
    /\ pc = "new_page"
    /\ \/ /\ pc' = "page_loop"
          /\ jobs' = <<>>
          /\ UNCHANGED uncaught
       \/ /\ Propagate("new_page")
          /\ UNCHANGED jobs
    /\ UNCHANGED <<browser, open_pages, page_num, job_cards, idx, locals, log, written, output, recorded, enumerated>>

\* line 19: for page_num in range(1, 2)
PageLoop ==
    /\ pc = "page_loop"
    /\ pc' = IF page_num < PageStop THEN "goto" ELSE "close_browser"
    /\ UNCHANGED <<browser, open_pages, page_num, job_cards, idx, locals, result>>

\* line 22: page.goto(url, wait_until='domcontentloaded')
Goto ==
    /\ pc = "goto"
    /\ \/ /\ pc' = "wait"
          /\ UNCHANGED err
       \/ PageError("goto")
    /\ UNCHANGED <<browser, open_pages, page_num, job_cards, idx, result>>
    /\ UNCHANGED <<job_name, job_loc, job_desc, experience, jobLink, page_text, matches, visited>>

\* the wait outside the per-page try block: a timeout ends the run
WaitForCards_TimeoutPropagates ==
    /\ pc = "wait"
    /\ \/ /\ pc' = "query_cards"
          /\ UNCHANGED uncaught
       \/ Propagate("timeout")
    /\ UNCHANGED <<browser, open_pages, page_num, job_cards, idx, locals>>
    /\ UNCHANGED <<jobs, log, written, output, recorded, enumerated>>

\* line 23: page.wait_for_function(..., timeout=10000)
WaitForCards ==
    /\ pc = "wait"
    /\ \/ /\ pc' = "query_cards"
          /\ UNCHANGED err
       \/ PageError("timeout")
    /\ UNCHANGED <<browser, open_pages, page_num, job_cards, idx, result>>
    /\ UNCHANGED <<job_name, job_loc, job_desc, experience, jobLink, page_text, matches, visited>>

\* line 25: job_cards = page.query_selector_all('div.card.card-job')
QueryCards ==
    /\ pc = "query_cards"
    /\ \/ /\ \E cs \in CardLists :
                /\ job_cards' = cs
                /\ enumerated' = enumerated \o cs
          /\ idx' = 1
          /\ pc' = "card_loop"
          /\ UNCHANGED err
       \/ /\ PageError("query_selector_all")
          /\ UNCHANGED <<job_cards, idx, enumerated>>
    /\ UNCHANGED <<browser, open_pages, page_num, jobs, log, written, output, uncaught, recorded>>
    /\ UNCHANGED <<job_name, job_loc, job_desc, experience, jobLink, page_text, matches, visited>>

\* line 27: for card in job_cards; line 61 when the cards are exhausted
CardLoop ==
    /\ pc = "card_loop"
    /\ IF idx <= Len(job_cards)
       THEN /\ pc' = "title"
            /\ UNCHANGED <<page_num, log>>
       ELSE /\ log' = Append(log, [kind |-> "scraped", page |-> page_num, what |-> ""])
            /\ page_num' = page_num + 1
            /\ pc' = "page_loop"
    /\ UNCHANGED <<browser, open_pages, job_cards, idx, locals, jobs, written, output, uncaught, recorded, enumerated>>

\* element.inner_text().strip() if element else "NONE"
TextOrNone(element) == IF element # NoElement THEN Strip(element) ELSE NoneSentinel

\* lines 28-29: the card title
ReadTitle ==
    /\ pc = "title"
    /\ \/ /\ job_name' = TextOrNone(card.title)
          /\ pc' = "location"
          /\ UNCHANGED err
       \/ /\ PageError("title")
          /\ UNCHANGED job_name
    /\ UNCHANGED <<browser, open_pages, page_num, job_cards, idx, result>>
    /\ UNCHANGED <<job_loc, job_desc, experience, jobLink, page_text, matches, visited>>

\* lines 31-32: the card location
ReadLocation ==
    /\ pc = "location"
    /\ \/ /\ job_loc' = TextOrNone(card.loc)
          /\ pc' = "link"
          /\ UNCHANGED err
       \/ /\ PageError("location")
          /\ UNCHANGED job_loc
    /\ UNCHANGED <<browser, open_pages, page_num, job_cards, idx, result>>
    /\ UNCHANGED <<job_name, job_desc, experience, jobLink, page_text, matches, visited>>

\* f"https://careers.servicenow.com{link.get_attribute('href')}" if link else ""
AbsoluteUrl(href) == IF href # NoElement THEN Origin \o href ELSE ""

\* lines 34-38: the defaults and the card link
ReadLink ==
    /\ pc = "link"
    /\ \/ /\ job_desc' = NotMentioned
          /\ experience' = NotMentioned
          /\ jobLink' = AbsoluteUrl(card.href)
          /\ err' = ""
          /\ visited' = FALSE
          /\ pc' = "if_link"
       \/ /\ job_desc' = NotMentioned
          /\ experience' = NotMentioned
          /\ PageError("link")
          /\ UNCHANGED <<jobLink, visited>>
    /\ UNCHANGED <<browser, open_pages, page_num, job_cards, idx, result>>
    /\ UNCHANGED <<job_name, job_loc, page_text, matches>>

\* the detail step entered whether or not the card has a link
IfLink_Always ==
    /\ pc = "if_link"
    /\ pc' = "open_detail"
    /\ UNCHANGED <<browser, open_pages, page_num, job_cards, idx, locals, result>>

\* line 40: if jobLink
IfLink ==
    /\ pc = "if_link"
    /\ pc' = IF jobLink # "" THEN "open_detail" ELSE "append"
    /\ UNCHANGED <<browser, open_pages, page_num, job_cards, idx, locals, result>>

\* line 42: job_page = context.new_page()
OpenDetail ==
    /\ pc = "open_detail"
    /\ visited' = TRUE
    /\ \/ /\ open_pages' = open_pages \cup {<<page_num, idx>>}
          /\ pc' = "detail_goto"
          /\ UNCHANGED err
       \/ /\ CardError("detail_new_page")
          /\ UNCHANGED open_pages
    /\ UNCHANGED <<browser, page_num, job_cards, idx, result>>
    /\ UNCHANGED <<job_name, job_loc, job_desc, experience, jobLink, page_text, matches>>

\* the navigation outside the per-card try block: its error reaches the per-page handler
DetailGoto_Uncaught ==
    /\ pc = "detail_goto"
    /\ \/ /\ pc' = "detail_text"
          /\ UNCHANGED err
       \/ PageError("detail_goto")
    /\ UNCHANGED <<browser, open_pages, page_num, job_cards, idx, result>>
    /\ UNCHANGED <<job_name, job_loc, job_desc, experience, jobLink, page_text, matches, visited>>

\* line 43: job_page.goto(jobLink, wait_until='domcontentloaded')
DetailGoto ==
    /\ pc = "detail_goto"
    /\ \/ /\ pc' = "detail_text"
          /\ UNCHANGED err
       \/ CardError("detail_goto")
    /\ UNCHANGED <<browser, open_pages, page_num, job_cards, idx, result>>
    /\ UNCHANGED <<job_name, job_loc, job_desc, experience, jobLink, page_text, matches, visited>>

\* line 44: page_text = job_page.inner_text('body')
DetailText ==
    /\ pc = "detail_text"
    /\ \/ /\ \E t \in BodyTexts : page_text' = t
          /\ pc' = "find"
          /\ UNCHANGED err
       \/ /\ CardError("detail_inner_text")
          /\ UNCHANGED page_text
    /\ UNCHANGED <<browser, open_pages, page_num, job_cards, idx, result>>
    /\ UNCHANGED <<job_name, job_loc, job_desc, experience, jobLink, matches, visited>>

\* the list join() is applied to is the matches with every repetition kept
JoinedMatches_NoSet(ms) == { Join(ms) }

\* ', '.join(set(matches)): the values the field can take, one for each order
\* in which the set may be iterated
JoinedMatches(ms) == { Join(o) : o \in Orderings(Range(ms)) }

\* lines 45-48: the experience phrases and the description
FindExperience ==
    /\ pc = "find"
    /\ matches' = FindAll(page_text)
    /\ IF Len(matches') > 0
       THEN experience' \in JoinedMatches(matches')
       ELSE UNCHANGED experience
    /\ job_desc' = jobLink
    /\ pc' = "detail_close"
    /\ UNCHANGED <<browser, open_pages, page_num, job_cards, idx, result>>
    /\ UNCHANGED <<job_name, job_loc, jobLink, page_text, err, visited>>

\* line 49: job_page.close(); a close() that raises leaves the page open
DetailClose ==
    /\ pc = "detail_close"
    /\ \/ /\ open_pages' = open_pages \ {<<page_num, idx>>}
          /\ pc' = "append"
          /\ UNCHANGED err
       \/ /\ CardError("detail_close")
          /\ UNCHANGED open_pages
    /\ UNCHANGED <<browser, page_num, job_cards, idx, result>>
    /\ UNCHANGED <<job_name, job_loc, job_desc, experience, jobLink, page_text, matches, visited>>

\* lines 50-51: except Exception as e: print(...)
CardExcept ==
    /\ pc = "card_except"
    /\ log' = Append(log, [kind |-> "job_page_error", page |-> page_num, what |-> err])
    /\ pc' = "append"
    /\ UNCHANGED <<browser, open_pages, page_num, job_cards, idx, locals>>
    /\ UNCHANGED <<jobs, written, output, uncaught, recorded, enumerated>>

\* how the detail step of the current card ended
DetailOutcome == IF ~visited THEN "skipped" ELSE IF err = "" THEN "read" ELSE err

\* lines 53-59: jobs.append({...})
AppendRecord ==
    /\ pc = "append"
    /\ jobs' = Append(jobs, [Job |-> job_name,
                             Location |-> job_loc,
                             Experience |-> experience,
                             Job_Description |-> job_desc,
                             ServiceNow_Page |-> page_num])
    /\ recorded' = Append(recorded, [card |-> card, detail |-> DetailOutcome,
                                     text |-> IF DetailOutcome = "read" THEN page_text ELSE ""])
    /\ idx' = idx + 1
    /\ pc' = "card_loop"
    /\ UNCHANGED <<browser, open_pages, page_num, job_cards, locals>>
    /\ UNCHANGED <<log, written, output, uncaught, enumerated>>

\* a handler that also throws away what the run has collected
PageExcept_DropsRecords ==
    /\ pc = "page_except"
    /\ log' = Append(log, [kind |-> "page_failed", page |-> page_num, what |-> err])
    /\ page_num' = page_num + 1
    /\ pc' = "page_loop"
    /\ jobs' = <<>>
    /\ recorded' = <<>>
    /\ UNCHANGED <<browser, open_pages, job_cards, idx, locals>>
    /\ UNCHANGED <<written, output, uncaught, enumerated>>

\* lines 62-63: except Exception as e: print(...), then the next page
PageExcept ==
    /\ pc = "page_except"
    /\ log' = Append(log, [kind |-> "page_failed", page |-> page_num, what |-> err])
    /\ page_num' = page_num + 1
    /\ pc' = "page_loop"
    /\ UNCHANGED <<browser, open_pages, job_cards, idx, locals>>
    /\ UNCHANGED <<jobs, written, output, uncaught, recorded, enumerated>>

\* line 65: browser.close(), which closes every page of the browser
CloseBrowser ==
    /\ pc = "close_browser"
    /\ \/ /\ browser' = "closed"
          /\ open_pages' = {}
          /\ pc' = "write"
          /\ UNCHANGED uncaught
       \/ /\ Propagate("browser_close")
          /\ UNCHANGED <<browser, open_pages>>
    /\ UNCHANGED <<page_num, job_cards, idx, locals, jobs, log, written, output, recorded, enumerated>>

\* json.dump(jobs, f, indent=2): a JSON array with one object per record, in order
JsonDump(js) == [i \in 1..Len(js) |-> js[i]]

\* lines 67-70: the timestamped file
WriteFile ==
    /\ pc = "write"
    /\ \/ /\ written' = TRUE
          /\ output' = JsonDump(jobs)
          /\ pc' = "report"
          /\ UNCHANGED uncaught
       \/ /\ Propagate("open")
          /\ UNCHANGED <<written, output>>
    /\ UNCHANGED <<browser, open_pages, page_num, job_cards, idx, locals, jobs, log, recorded, enumerated>>

\* line 72: print(f"Saved {len(jobs)} jobs to {filename}")
Report ==
    /\ pc = "report"
    /\ log' = Append(log, [kind |-> "saved", page |-> Len(jobs), what |-> ""])
    /\ pc' = "done"
    /\ UNCHANGED <<browser, open_pages, page_num, job_cards, idx, locals>>
    /\ UNCHANGED <<jobs, written, output, uncaught, recorded, enumerated>>

Next ==
    \/ Launch
    \/ NewContext
    \/ NewPage
    \/ PageLoop
    \/ Goto
    \/ WaitForCards
    \/ QueryCards
    \/ CardLoop
    \/ ReadTitle
    \/ ReadLocation
    \/ ReadLink
    \/ IfLink
    \/ OpenDetail
    \/ DetailGoto
    \/ DetailText
    \/ FindExperience
    \/ DetailClose
    \/ CardExcept
    \/ AppendRecord
    \/ PageExcept
    \/ CloseBrowser
    \/ WriteFile
    \/ Report

Spec == Init /\ [][Next]_vars

\* ------------------------------------------------------------------------
\* Properties
\* ------------------------------------------------------------------------

\* C1: every detail page is closed before the next card is processed, on the
\* success path and on the error path: at most one detail page is open, it
\* is the page of the current card, and it is open only between its
\* creation and the append of the card's record.
C1_DetailPagesClosed ==
    /\ Cardinality(open_pages) <= 1
    /\ open_pages # {} =>
          /\ open_pages = {<<page_num, idx>>}
          /\ pc \in {"detail_goto", "detail_text", "find", "detail_close", "card_except", "append"}

\* C2: the written array has exactly one record per enumerated card, in the
\* order of enumeration, whatever errors occur while the cards are processed.
C2_OneRecordPerCard ==
    written =>
        /\ Len(output) = Len(enumerated)
        /\ \A k \in 1..Len(recorded) : k <= Len(enumerated) /\ recorded[k].card = enumerated[k]

\* C3: an error of the detail-page navigation or of the body-text read is
\* caught by the per-card handler (it reaches neither the per-page handler
\* nor the caller), the next statement appends the card's record with
\* Experience "not mentioned", no card is lost because of it (when the card
\* loop has ended without a page failure every enumerated card has its
\* record), and once the loop is left browser.close() runs and then the
\* file is written, short of an error of browser.close() or of open().
C3_DetailErrorNotFatal ==
    /\ [](/\ uncaught \notin {"detail_goto", "detail_inner_text"}
          /\ \A i \in 1..Len(log) :
                log[i].kind = "page_failed" => log[i].what \notin {"detail_goto", "detail_inner_text"}
          /\ (pc = "card_except" /\ err \in {"detail_goto", "detail_inner_text"})
                => experience = NotMentioned
          /\ \A k \in 1..Len(jobs) :
                recorded[k].detail \in {"detail_goto", "detail_inner_text"}
                   => jobs[k].Experience = NotMentioned
          /\ (/\ pc \in {"close_browser", "write", "report", "done"}
              /\ \A i \in 1..Len(log) : log[i].kind # "page_failed")
                => Len(jobs) = Len(enumerated)
          /\ pc \in {"report", "done"} => written /\ Len(output) = Len(jobs))
    /\ [][(pc = "card_except" /\ err \in {"detail_goto", "detail_inner_text"}) =>
             (pc' = "append" /\ experience' = NotMentioned /\ jobs' = jobs)]_vars
    /\ [][pc = "append" =>
             (Len(jobs') = Len(jobs) + 1 /\ jobs'[Len(jobs')].Experience = experience)]_vars
    /\ [][pc = "close_browser" => (pc' = "write" \/ uncaught' = "browser_close")]_vars
    /\ [][pc = "write" => (written' \/ uncaught' = "open")]_vars

C3_Witness ==
    /\ pc = "done"
    /\ written
    /\ Len(output) = 2
    /\ recorded[1].detail = "detail_goto"
    /\ output[1].Experience = NotMentioned
    /\ recorded[2].detail = "read"

\* C4: once the browser is launched no failure aborts the run before the
\* step that writes the output file.
C4_OnlyLaunchIsFatal ==
    pc = "crashed" => uncaught \in {"launch", "open"}

\* C5: records are never changed or removed once appended, whatever fails
\* afterwards; the written array is the accumulated sequence, and the
\* reported count is the number of records written.
C5_PartialResultsSaved ==
    /\ [][/\ Len(jobs') >= Len(jobs)
          /\ SubSeq(jobs', 1, Len(jobs)) = jobs]_vars
    /\ [](written => /\ Len(output) = Len(jobs)
                     /\ \A k \in 1..Len(jobs) : output[k] = jobs[k])
    /\ [](\A i \in 1..Len(log) : log[i].kind = "saved" => log[i].page = Len(output))

C5_Witness ==
    /\ pc = "done"
    /\ \E i \in 1..Len(log) : log[i].kind = "page_failed" /\ log[i].what = "title"
    /\ \E i \in 1..Len(log) : log[i].kind = "saved" /\ log[i].page = 1
    /\ Len(output) = 1
    /\ Len(enumerated) = 2

\* C6: a timeout of the card-presence wait is handled by the per-page
\* handler: it is logged for that page, no record is appended, the loop
\* goes on with the next page number, after the last page comes
\* browser.close(), and with the single configured page the records, and
\* the array written from them, are empty.
C6_NoCardsWithinTimeout ==
    /\ [][(pc = "wait" /\ pc' # "query_cards") =>
             (pc' = "page_except" /\ err' = "timeout" /\ jobs' = jobs)]_vars
    /\ [][(pc = "page_except" /\ err = "timeout") =>
             /\ log' = Append(log, [kind |-> "page_failed", page |-> page_num, what |-> "timeout"])
             /\ jobs' = jobs
             /\ page_num' = page_num + 1
             /\ pc' = "page_loop"]_vars
    /\ [](uncaught # "timeout")
    /\ []((/\ \E i \in 1..Len(log) : log[i].kind = "page_failed" /\ log[i].what = "timeout"
           /\ PageStop - PageStart = 1)
             => /\ jobs = <<>>
                /\ output = <<>>
                /\ pc \in {"report", "done"} => written)
    /\ [][(pc = "page_loop" /\ page_num >= PageStop) => pc' = "close_browser"]_vars

C6_Witness ==
    /\ pc = "done"
    /\ written
    /\ output = <<>>
    /\ log[1] = [kind |-> "page_failed", page |-> PageStart, what |-> "timeout"]

\* C7: for a card without an anchor with an href no detail page is opened
\* and no detail navigation is performed, and its record has Experience and
\* Job Description "not mentioned".
C7_NoLinkNoDetail ==
    /\ (pc \in {"open_detail", "detail_goto", "detail_text", "find", "detail_close", "card_except"})
          => card.href # NoElement
    /\ \A pg \in open_pages : pg[1] = page_num => job_cards[pg[2]].href # NoElement
    /\ \A k \in 1..Len(jobs) :
          recorded[k].card.href = NoElement =>
             /\ recorded[k].detail = "skipped"
             /\ jobs[k].Experience = NotMentioned
             /\ jobs[k].Job_Description = NotMentioned

C7_Witness ==
    /\ pc = "done"
    /\ Len(output) = 2
    /\ recorded[1].card.href # NoElement /\ recorded[1].detail = "read"
    /\ recorded[2].card.href = NoElement /\ recorded[2].detail = "skipped"
    /\ output[2].Job_Description = NotMentioned

\* C8: Job Description is the absolute URL whenever the card has a link, also
\* when the detail fetch failed, and "not mentioned" only when it has none.
C8_DescriptionIsUrl ==
    \A k \in 1..Len(jobs) :
        IF recorded[k].card.href # NoElement
        THEN jobs[k].Job_Description = Origin \o recorded[k].card.href
        ELSE jobs[k].Job_Description = NotMentioned

\* C9: Job is the title text without its leading and trailing whitespace
\* (what was removed is whitespace only, what is left neither starts nor
\* ends with whitespace) when the title element exists and "NONE" when it
\* does not; Location follows the same rule for the first inline list item,
\* whatever the title is.
C9_TitleAndLocation ==
    LET IsTrimOf(v, raw) ==
            \E i \in 0..Len(raw) :
                /\ i + Len(v) <= Len(raw)
                /\ SubSeq(raw, i + 1, i + Len(v)) = v
                /\ \A n \in (1..i) \cup ((i + Len(v) + 1)..Len(raw)) : IsSpace(SubSeq(raw, n, n))
                /\ Len(v) > 0 => /\ ~IsSpace(SubSeq(v, 1, 1))
                                 /\ ~IsSpace(SubSeq(v, Len(v), Len(v)))
        FieldOK(v, element) ==
            IF element = NoElement THEN v = "NONE" ELSE IsTrimOf(v, element)
    IN  \A k \in 1..Len(jobs) :
            /\ FieldOK(jobs[k].Job, recorded[k].card.title)
            /\ FieldOK(jobs[k].Location, recorded[k].card.loc)

C9_Witness ==
    /\ Len(jobs) = 2
    /\ recorded[1].card.title = " Staff Engineer\n" /\ jobs[1].Job = "Staff Engineer"
    /\ jobs[1].Location = "Pune, India"
    /\ recorded[2].card.title = NoElement /\ jobs[2].Job = "NONE"
    /\ recorded[2].card.loc = "\tRemote" /\ jobs[2].Location = "Remote"

\* C10: after a successful read of the detail page, Experience is
\* "not mentioned" exactly when the pattern has no match in the body text,
\* and otherwise it is the distinct matches (distinct as strings, so two
\* spellings that differ in case are two matches), each exactly once,
\* joined with ", " in some order.  The matches of the sampled texts are those
\* re.findall returns for them.
C10_ExperienceField ==
    LET Expected(t) ==
            CASE t = "Requires 5+ years of experience, ideally three years in the field"
                     -> <<"5+ years", "three years">>
              [] t = "at least 5 years, At Least 5 years, or at least 5 years"
                     -> <<"at least 5 years", "At Least 5 years", "at least 5 years">>
              [] t = "No prior experience needed; one years" -> <<>>
        WellFormed(exp, t) ==
            LET M == { Expected(t)[i] : i \in 1..Len(Expected(t)) }
            IN  /\ (M = {}) <=> (exp = NotMentioned)
                /\ M # {} =>
                      \E o \in [1..Cardinality(M) -> M] :
                          /\ \A m \in M : Cardinality({ i \in DOMAIN o : o[i] = m }) = 1
                          /\ exp = Join(o)
    IN  /\ pc = "detail_close" => (matches = Expected(page_text) /\ WellFormed(experience, page_text))
        /\ \A k \in 1..Len(jobs) :
              recorded[k].detail = "read" => WellFormed(jobs[k].Experience, recorded[k].text)

C10_Witness ==
    /\ Len(jobs) = 2
    /\ recorded[1].text = "at least 5 years, At Least 5 years, or at least 5 years"
    /\ jobs[1].Experience = "At Least 5 years, at least 5 years"
    /\ recorded[2].text = "No prior experience needed; one years"
    /\ jobs[2].Experience = NotMentioned
====
